---- MODULE Spec2Model ----
(***************************************************************************)
(* Lab Co-Pilot backend: the in-memory store (store.py), the tool          *)
(* dispatcher and the chat orchestration loop (services/llm.py), the       *)
(* sandboxed code executor (services/sandbox.py) and the table endpoints   *)
(* of the data router (routers/data.py).                                   *)
(*                                                                         *)
(* Encoding of Python values:                                              *)
(*   - a dict is a record whose DOMAIN is the dict's key set;              *)
(*   - None is the string "None" in string-valued slots and NoRows in the  *)
(*     slot that holds a list of rows;                                     *)
(*   - a list of table rows is modelled by its length, a table (DataFrame) *)
(*     by its number of rows.                                              *)
(***************************************************************************)
EXTENDS Integers, Sequences, FiniteSets, TLC

\* ------------------------------------------------------------------ bounds
\* Number of dataset uploads explored (file ids are 1..MaxUploads).
MaxUploads == 2
\* Number of chat() invocations explored.
MaxChats == 2
\* Longest tool_calls list the first model call returns.
MaxCalls == 2
\* Longest conversation history a chat() invocation starts from.
MaxHistory == 22
\* Longest text given to chunk_text.
MaxText == 5
\* Largest chunk_size given to chunk_text.
MaxChunk == 3

\* ------------------------------------------------------- program constants
\* result.head(50) in the in-chat filter_data branch.
ChatPreviewRows == 50
\* res.head(100) in the sandbox's DataFrame branch.
SandboxPreviewRows == 100
\* result.head(100) in the data router's filter endpoint.
ApiPreviewRows == 100
\* store.conversation_history[-20:] when the prompt is built.
HistoryWindow == 20
\* kb_search top_k default.
DefaultTopK == 5

None == "None"
\* The "table_data": None slot of response_data (a row list is its length).
NoRows == -1
\* A value stored where table rows are expected that is not a list of rows
\* (a single cell of a column).
NotRows == -2

Min(a, b) == IF a <= b THEN a ELSE b

\* A Python value is truthy unless it is None or the empty string.
Truthy(v) == v \notin {None, ""}

\* ------------------------------------------------------------------- tools
\* The names declared in TOOLS.
ToolNames ==
  {"filter_data", "aggregate_data", "describe_data", "generate_plot",
   "search_documents", "execute_pandas_code"}

\* The branches of _execute_tool that start with the active-dataset guard.
DatasetTools == ToolNames \ {"search_documents"}

\* The "required" list of each tool's parameter schema.
RequiredArgs(name) ==
  CASE name = "filter_data" -> {"conditions"}
    [] name = "aggregate_data" -> {"group_column", "value_column", "agg_func"}
    [] name = "describe_data" -> {}
    [] name = "generate_plot" -> {"plot_type", "x_column"}
    [] name = "search_documents" -> {"query"}
    [] name = "execute_pandas_code" -> {"code"}
    [] OTHER -> {}

\* The empty argument map {}.
NoArgs == [k \in {} |-> None]

\* dict.get(key, default)
DictGet(d, key, default) == IF key \in DOMAIN d THEN d[key] ELSE default

\* What a dispatch does: it returns an envelope or raises; `invoked` names
\* the collaborator that was called ("none" when none was).
Return(env, invoked) == [raised |-> FALSE, env |-> env, invoked |-> invoked]

Raise(exc, invoked) == [raised |-> TRUE, exc |-> exc, invoked |-> invoked]

NoDataset == [error |-> "No dataset loaded."]

\* {"result": ..., "plot_json": ..., "error": ...} of execute_code.
SandboxOutput(result, plot_json, error) ==
  [result |-> result, plot_json |-> plot_json, error |-> error]

\* The value bound to output["result"] for each type of the script's `result`.
PyNone == [type |-> "NoneType"]

ExtractResult(res) ==
  CASE res.type = "DataFrame" ->
         [type |-> "dict",
          data |-> Min(res.rows, SandboxPreviewRows),
          columns |-> "cols",
          row_count |-> res.rows]
    [] res.type = "Series" ->
         IF res.labelled_data
           THEN [type |-> "dict", index0 |-> "v", data |-> NotRows]
           ELSE [type |-> "dict", index0 |-> "v"]
    [] OTHER -> res

\* ---------------------------------------------------- tool dispatcher (llm.py)
\* One operator per branch of _execute_tool.  `active` is
\* store.active_dataset_id, `frames` is store.data_frames (file id -> table),
\* `collab` is what the collaborator does when it is called.

ExecFilter(args, active, frames, collab) ==
  IF ~Truthy(active) THEN Return(NoDataset, "none")
  ELSE IF active \notin DOMAIN frames THEN Raise("KeyError", "none")
  ELSE IF "conditions" \notin DOMAIN args THEN Raise("KeyError", "none")
  ELSE IF collab.fault THEN Raise("CollaboratorError", "filter_data")
  ELSE Return([data |-> Min(collab.rows, ChatPreviewRows),
               columns |-> "cols",
               row_count |-> collab.rows], "filter_data")

ExecAggregate(args, active, frames, collab) ==
  IF ~Truthy(active) THEN Return(NoDataset, "none")
  ELSE IF active \notin DOMAIN frames THEN Raise("KeyError", "none")
  ELSE IF {"group_column", "value_column"} \ DOMAIN args # {}
    THEN Raise("KeyError", "none")
  ELSE IF collab.fault THEN Raise("CollaboratorError", "aggregate_data")
  ELSE Return([data |-> collab.rows,
               columns |-> "cols",
               row_count |-> collab.rows], "aggregate_data")

ExecDescribe(args, active, frames, collab) ==
  IF ~Truthy(active) THEN Return(NoDataset, "none")
  ELSE IF active \notin DOMAIN frames THEN Raise("KeyError", "none")
  ELSE IF collab.fault THEN Raise("CollaboratorError", "describe_data")
  ELSE Return([statistics |-> "stats"], "describe_data")

ExecPlot(args, active, frames, collab) ==
  IF ~Truthy(active) THEN Return(NoDataset, "none")
  ELSE IF active \notin DOMAIN frames THEN Raise("KeyError", "none")
  ELSE IF {"plot_type", "x_column"} \ DOMAIN args # {}
    THEN Raise("KeyError", "none")
  ELSE IF collab.fault THEN Raise("CollaboratorError", "generate_plot")
  ELSE Return([plot_json |-> collab.chart,
               plot_type |-> args["plot_type"]], "generate_plot")

ExecSearch(args, active, frames, collab) ==
  IF "query" \notin DOMAIN args THEN Raise("KeyError", "none")
  ELSE IF collab.fault THEN Raise("CollaboratorError", "kb_search")
  ELSE Return([results |-> Min(collab.hits, DictGet(args, "top_k", DefaultTopK))],
              "kb_search")

\* Fault injection: the execute_pandas_code branch without its active-dataset
\* guard.
ExecSandbox_NoGuard(args, active, frames, collab) ==
  IF active \notin DOMAIN frames THEN Raise("KeyError", "none")
  ELSE IF "code" \notin DOMAIN args THEN Raise("KeyError", "none")
  ELSE IF collab.raised THEN Raise("SandboxTimeout", "execute_code")
  ELSE Return(collab.out, "execute_code")

ExecSandbox(args, active, frames, collab) ==
  IF ~Truthy(active) THEN Return(NoDataset, "none")
  ELSE IF active \notin DOMAIN frames THEN Raise("KeyError", "none")
  ELSE IF "code" \notin DOMAIN args THEN Raise("KeyError", "none")
  ELSE IF collab.raised THEN Raise("SandboxTimeout", "execute_code")
  ELSE Return(collab.out, "execute_code")

\* Fault injection: an unknown name fails the call instead of being reported.
ExecUnknown_Raises(name) == Raise("ValueError", "none")

ExecUnknown(name) == Return([error |-> "Unknown tool: " \o name], "none")

\* _execute_tool(name, args)
ExecuteTool(name, args, active, frames, collab) ==
  CASE name = "filter_data" -> ExecFilter(args, active, frames, collab)
    [] name = "aggregate_data" -> ExecAggregate(args, active, frames, collab)
    [] name = "describe_data" -> ExecDescribe(args, active, frames, collab)
    [] name = "generate_plot" -> ExecPlot(args, active, frames, collab)
    [] name = "search_documents" -> ExecSearch(args, active, frames, collab)
    [] name = "execute_pandas_code" -> ExecSandbox(args, active, frames, collab)
    [] OTHER -> ExecUnknown(name)

\* ------------------------------------------------------ collaborator outcomes
\* What the collaborators behind the dispatcher can do with a table of
\* `dfRows` rows: fault, or yield a table with one of `sizes` rows (a filter or
\* a group-by never yields more rows than it was given), a chart of `charts`,
\* a hit count, or one of the sandbox outcomes `sandbox`.
TableOutcomes(dfRows, sizes) ==
  {[fault |-> TRUE]} \cup {[fault |-> FALSE, rows |-> n] : n \in {m \in sizes : m <= dfRows}}

PlotOutcomes(charts) ==
  {[fault |-> TRUE]} \cup {[fault |-> FALSE, chart |-> c] : c \in charts}

SearchOutcomes == {[fault |-> TRUE], [fault |-> FALSE, hits |-> 0], [fault |-> FALSE, hits |-> 1]}

CollabOutcomes(name, dfRows, sizes, charts, sandbox) ==
  CASE name \in {"filter_data", "aggregate_data"} -> TableOutcomes(dfRows, sizes)
    [] name = "describe_data" -> {[fault |-> TRUE], [fault |-> FALSE]}
    [] name = "generate_plot" -> PlotOutcomes(charts)
    [] name = "search_documents" -> SearchOutcomes
    [] name = "execute_pandas_code" -> sandbox
    [] OTHER -> {[fault |-> FALSE]}

\* ------------------------------------------------------------ store (store.py)
VARIABLES
  data_frames,           \* file id -> table (its number of rows)
  data_meta,             \* file id -> metadata of the upload
  active_dataset_id,     \* a file id, or None
  document_meta,         \* the set of stored document ids
  conversation_history,  \* the sequence of turns
  uploads,               \* number of uploads so far (the uuid source)
  api_response           \* the last answer of a data router table endpoint

storeVars ==
  <<data_frames, data_meta, active_dataset_id, document_meta,
    conversation_history, uploads, api_response>>

\* ---------------------------------------------------- chat() invocations (llm.py)
VARIABLES
  pc,             \* where each invocation stands
  user_message,   \* its argument
  messages,       \* its prompt context
  tool_calls,     \* assistant_msg.tool_calls of the first response
  next_call,      \* index of the next tool call of the for loop
  response_data,  \* its response envelope
  dispatched,     \* log: one entry per _execute_tool call it made
  provider_calls, \* log: the client.chat.complete calls it made
  faulted,        \* whether its except clause ran
  hist0,          \* conversation_history when it was entered
  interleaved,    \* whether another request wrote to the store since then
  appended,       \* the turns it appended itself, in order
  chats           \* number of invocations entered so far

chatVars ==
  <<pc, user_message, messages, tool_calls, next_call, response_data,
    dispatched, provider_calls, faulted, hist0, interleaved, appended, chats>>

\* ------------------------------------------ execute_code calls (sandbox.py)
VARIABLES
  sb_pc,          \* where each call stands
  sb_thread,      \* the thread it runs in: "main" or "worker"
  sb_script,      \* what its script does
  sb_old_handler, \* its old_handler local
  sb_output,      \* its output dict
  sb_escaping,    \* whether an exception is propagating through its finally
  sb_fault,       \* whether a fault or a timeout occurred in it
  sb_spin,        \* the parity of its script's loop iterations
  alarm_pending,  \* the process-wide alarm is armed
  alarm_handler   \* the process-wide SIGALRM handler

sbVars ==
  <<sb_pc, sb_thread, sb_script, sb_old_handler, sb_output, sb_escaping,
    sb_fault, sb_spin, alarm_pending, alarm_handler>>

\* ------------------------------------------- chunk_text (doc_processor.py)
VARIABLES
  ct_pc,       \* where the call stands
  ct_text,     \* its text: a sequence of characters
  ct_size,     \* its chunk_size
  ct_overlap,  \* its overlap
  ct_start,    \* its start local
  ct_chunks,   \* its chunks list
  ct_windows,  \* log: the [start, end) slice of each iteration
  ct_result    \* what it returned

ctVars ==
  <<ct_pc, ct_text, ct_size, ct_overlap, ct_start, ct_chunks, ct_windows, ct_result>>

\* The request handlers that can run chat(); Spec runs them one at a time.
Procs == {1, 2}

EmptyFcn == [k \in {} |-> None]

\* uuid.uuid4().hex[:12]: a fresh identifier per upload.
FileId(i) == "f" \o ToString(i)

\* Fault injection: the first `limit` turns are read instead of the last.
Snapshot_Oldest(history, limit) ==
  SubSeq(history, 1, IF Len(history) > limit THEN limit ELSE Len(history))

\* store.conversation_history[-limit:]
Snapshot(history, limit) ==
  SubSeq(history, IF Len(history) > limit THEN Len(history) - limit + 1 ELSE 1,
         Len(history))

\* Fault injection: the turn is inserted at the front of the history.
AppendTurn_Front(history, turn) == <<turn>> \o history

\* list.append on store.conversation_history
AppendTurn(history, turn) == Append(history, turn)

\* Fault injection: the turn recorded for the user loses the message.
UserTurn_Blank(msg) == [role |-> "user", content |-> ""]

\* {"role": "user", "content": user_message}
UserTurn(msg) == [role |-> "user", content |-> msg]

\* Fault injection: the turn recorded for the assistant drops the chart.
AssistantTurn_NoChart(rd) ==
  [role |-> "assistant", content |-> rd.text, plot_json |-> None,
   table_data |-> rd.table_data, table_columns |-> rd.table_columns]

\* {"role": "assistant", "content": ..., "plot_json": ..., "table_data": ...,
\* "table_columns": ...} built from response_data
AssistantTurn(rd) ==
  [role |-> "assistant", content |-> rd.text, plot_json |-> rd.plot_json,
   table_data |-> rd.table_data, table_columns |-> rd.table_columns]

\* response_data as initialised at the top of chat().
EmptyResponse ==
  [text |-> "", plot_json |-> None, table_data |-> NoRows, table_columns |-> None]

\* _build_system_prompt(): what it reads from the store.
SystemPrompt(active, frames, docs) ==
  [role |-> "system",
   dataset |-> IF Truthy(active) /\ active \in DOMAIN frames THEN active ELSE None,
   docs |-> docs]

\* messages as built before the first model call.
BuildMessages(active, frames, docs, history, msg) ==
  <<SystemPrompt(active, frames, docs)>>
    \o [i \in 1..Len(Snapshot(history, HistoryWindow)) |->
          [role |-> Snapshot(history, HistoryWindow)[i].role,
           content |-> Snapshot(history, HistoryWindow)[i].content]]
    \o <<[role |-> "user", content |-> msg]>>

\* The three `if` statements that fold one tool result into response_data.
\* Fault injection: the first chart wins; later charts are dropped.
FoldChart_FirstWins(rd, env) ==
  IF "plot_json" \in DOMAIN env /\ Truthy(env.plot_json) /\ rd.plot_json = None
    THEN [rd EXCEPT !.plot_json = env.plot_json]
    ELSE rd

FoldChart(rd, env) ==
  IF "plot_json" \in DOMAIN env /\ Truthy(env.plot_json)
    THEN [rd EXCEPT !.plot_json = env.plot_json]
    ELSE rd

FoldTable(rd, env) ==
  IF "data" \in DOMAIN env
    THEN [rd EXCEPT !.table_data = env.data,
                    !.table_columns = DictGet(env, "columns", "[]")]
    ELSE rd

FoldNested(rd, env) ==
  IF "result" \in DOMAIN env /\ env.result.type = "dict" /\ "data" \in DOMAIN env.result
    THEN [rd EXCEPT !.table_data = env.result.data,
                    !.table_columns = DictGet(env.result, "columns", "[]")]
    ELSE rd

Fold(rd, env) == FoldNested(FoldTable(FoldChart(rd, env), env), env)

\* The arguments string of a tool call that json.loads rejects.
BadJson == [unparsable |-> TRUE]

ErrorText == "I encountered an error"

\* The outcomes of execute_code seen by its caller: a SandboxTimeout that
\* escapes it, or an output object.
ScriptResults(sizes) ==
  {PyNone, [type |-> "Series", labelled_data |-> FALSE],
   [type |-> "Series", labelled_data |-> TRUE],
   [type |-> "dict", note |-> "v"], [type |-> "dict", data |-> NoRows],
   [type |-> "scalar"],
   [type |-> "dict", tuple_keys |-> TRUE]}
    \cup {[type |-> "DataFrame", rows |-> n] : n \in sizes}

SandboxOutcomes(sizes, charts) ==
  {[raised |-> TRUE]}
    \cup {[raised |-> FALSE, out |-> SandboxOutput(PyNone, None, e)] :
            e \in {"Code execution timed out (10s limit).", "Traceback"}}
    \cup {[raised |-> FALSE, out |-> SandboxOutput(ExtractResult(r), f, None), res |-> r] :
            r \in ScriptResults(sizes), f \in {None} \cup charts}

\* ------------------------------------------------- inputs explored under Spec
Charts == {"c1", "c2"}

UploadRows == {60}

ChatTableSizes == {51}

ChatSandboxOutcomes ==
  {o \in SandboxOutcomes(ChatTableSizes, {"c1"}) :
     o.raised \/ o.out.error # None \/ o.out.result.type = "dict"}

\* The tool calls the model provider may return.
ChatCalls ==
  {[name |-> "generate_plot", arguments |-> [plot_type |-> "bar", x_column |-> "x"]],
   [name |-> "filter_data", arguments |-> [conditions |-> "q"]],
   [name |-> "filter_data", arguments |-> NoArgs],
   [name |-> "execute_pandas_code", arguments |-> [code |-> "script"]],
   [name |-> "no_such_tool", arguments |-> NoArgs],
   [name |-> "describe_data", arguments |-> BadJson]}

SeqsUpTo(S, n) == UNION {[1..k -> S] : k \in 1..n}

\* tool_call.id: the provider numbers the calls of one response.
WithIds(calls) ==
  [i \in DOMAIN calls |->
     [id |-> i, name |-> calls[i].name, arguments |-> calls[i].arguments]]

\* The first responses explored over a growing history: a fault, a direct answer,
\* or one tool call.
HistoryCalls ==
  {[name |-> "generate_plot", arguments |-> [plot_type |-> "bar", x_column |-> "x"]],
   [name |-> "filter_data", arguments |-> NoArgs],
   [name |-> "describe_data", arguments |-> BadJson]}

HistoryResponses ==
  {[fault |-> TRUE], [fault |-> FALSE, content |-> "answer", tool_calls |-> <<>>]}
    \cup {[fault |-> FALSE, content |-> None, tool_calls |-> WithIds(<<c>>)] :
            c \in HistoryCalls}

\* What client.chat.complete can do on the first call.
FirstResponses ==
  {[fault |-> TRUE], [fault |-> FALSE, content |-> "answer", tool_calls |-> <<>>]}
    \cup {[fault |-> FALSE, content |-> None, tool_calls |-> WithIds(c)] :
            c \in SeqsUpTo(ChatCalls, MaxCalls)}

\* ---------------------------------------------------------------- store actions
\* A request other than `actor` wrote to the store while q was inside chat().
MarkOthers(actor) ==
  [q \in Procs |-> interleaved[q] \/ (q # actor /\ pc[q] # "idle")]

\* Fault injection: the upload replaces the stored datasets by the new one.
UploadData_ReplacesAll(rows) ==
  /\ uploads < MaxUploads
  /\ LET id == FileId(uploads + 1) IN
       /\ data_frames' = [f \in {id} |-> rows]
       /\ data_meta' = [f \in {id} |-> [filename |-> "file", row_count |-> rows]]
       /\ active_dataset_id' = id
  /\ uploads' = uploads + 1
  /\ UNCHANGED <<document_meta, conversation_history, api_response>>
  /\ interleaved' = MarkOthers(0)
  /\ UNCHANGED <<pc, user_message, messages, tool_calls, next_call, response_data,
                 dispatched, provider_calls, faulted, hist0, appended, chats>>
  /\ UNCHANGED <<sbVars, ctVars>>

\* routers/data.py upload_data
UploadData(rows) ==
  /\ uploads < MaxUploads
  /\ LET id == FileId(uploads + 1) IN
       /\ data_frames' = [f \in DOMAIN data_frames \cup {id} |->
                            IF f = id THEN rows ELSE data_frames[f]]
       /\ data_meta' = [f \in DOMAIN data_meta \cup {id} |->
                          IF f = id THEN [filename |-> "file", row_count |-> rows]
                                    ELSE data_meta[f]]
       /\ active_dataset_id' = id
  /\ uploads' = uploads + 1
  /\ UNCHANGED <<document_meta, conversation_history, api_response>>
  /\ interleaved' = MarkOthers(0)
  /\ UNCHANGED <<pc, user_message, messages, tool_calls, next_call, response_data,
                 dispatched, provider_calls, faulted, hist0, appended, chats>>
  /\ UNCHANGED <<sbVars, ctVars>>

\* routers/documents.py upload_document
UploadDocument ==
  /\ uploads < MaxUploads
  /\ document_meta' = document_meta \cup {"d" \o ToString(uploads + 1)}
  /\ uploads' = uploads + 1
  /\ UNCHANGED <<data_frames, data_meta, active_dataset_id, conversation_history,
                 api_response>>
  /\ interleaved' = MarkOthers(0)
  /\ UNCHANGED <<pc, user_message, messages, tool_calls, next_call, response_data,
                 dispatched, provider_calls, faulted, hist0, appended, chats>>
  /\ UNCHANGED <<sbVars, ctVars>>

\* Fault injection: clear_all without its `global active_dataset_id` statement,
\* so that the assignment binds a local name.
ClearAllStore_KeepActive ==
  /\ data_frames' = EmptyFcn
  /\ data_meta' = EmptyFcn
  /\ document_meta' = {}
  /\ conversation_history' = <<>>
  /\ active_dataset_id' = active_dataset_id

\* store.clear_all
ClearAllStore ==
  /\ data_frames' = EmptyFcn
  /\ data_meta' = EmptyFcn
  /\ document_meta' = {}
  /\ conversation_history' = <<>>
  /\ active_dataset_id' = None

ClearAll ==
  /\ ClearAllStore
  /\ UNCHANGED <<uploads, api_response>>
  /\ interleaved' = MarkOthers(0)
  /\ UNCHANGED <<pc, user_message, messages, tool_calls, next_call, response_data,
                 dispatched, provider_calls, faulted, hist0, appended, chats>>
  /\ UNCHANGED <<sbVars, ctVars>>

\* Fault injection: clearing the conversation also deactivates the dataset.
ClearHistory_Deactivates ==
  /\ conversation_history' = <<>>
  /\ active_dataset_id' = None
  /\ UNCHANGED <<data_frames, data_meta, document_meta, uploads, api_response>>
  /\ interleaved' = MarkOthers(0)
  /\ UNCHANGED <<pc, user_message, messages, tool_calls, next_call, response_data,
                 dispatched, provider_calls, faulted, hist0, appended, chats>>
  /\ UNCHANGED <<sbVars, ctVars>>

\* routers/chat.py clear_history
ClearHistory ==
  /\ conversation_history' = <<>>
  /\ UNCHANGED <<data_frames, data_meta, active_dataset_id, document_meta, uploads,
                 api_response>>
  /\ interleaved' = MarkOthers(0)
  /\ UNCHANGED <<pc, user_message, messages, tool_calls, next_call, response_data,
                 dispatched, provider_calls, faulted, hist0, appended, chats>>
  /\ UNCHANGED <<sbVars, ctVars>>

\* ------------------------------------------------------------ chat() step by step
\* Fault injection: the except clause starts the response over: error text,
\* no chart, no table.
OnFault_Resets(rd) ==
  [text |-> ErrorText, plot_json |-> None, table_data |-> NoRows, table_columns |-> None]

\* Fault injection: the except clause swallows the fault and leaves the text empty.
OnFault_Silent(rd) == rd

\* The except clause of chat(): the text becomes the error message; chart and
\* table keep what has been folded so far.
OnFault(rd) == [rd EXCEPT !.text = ErrorText]

\* routers/chat.py send_message calls chat(req.message); the message is not blank.
ChatStart(p) ==
  /\ pc[p] = "idle"
  /\ chats < MaxChats
  /\ chats' = chats + 1
  /\ pc' = [pc EXCEPT ![p] = "get_client"]
  /\ user_message' = [user_message EXCEPT ![p] = "m" \o ToString(chats + 1)]
  /\ hist0' = [hist0 EXCEPT ![p] = conversation_history]
  /\ interleaved' = [interleaved EXCEPT ![p] = FALSE]
  /\ UNCHANGED <<messages, tool_calls, next_call, response_data, dispatched,
                 provider_calls, faulted, appended>>
  /\ UNCHANGED storeVars
  /\ UNCHANGED <<sbVars, ctVars>>

\* client = _get_client(): outside the try block, so a RuntimeError leaves chat().
ChatGetClient(p) ==
  /\ pc[p] = "get_client"
  /\ \E ok \in BOOLEAN : pc' = [pc EXCEPT ![p] = IF ok THEN "build_prompt" ELSE "raised"]
  /\ UNCHANGED <<user_message, messages, tool_calls, next_call, response_data,
                 dispatched, provider_calls, faulted, hist0, interleaved, appended, chats>>
  /\ UNCHANGED storeVars
  /\ UNCHANGED <<sbVars, ctVars>>

\* messages = [system] + history[-20:] + [user]
ChatBuildPrompt(p) ==
  /\ pc[p] = "build_prompt"
  /\ messages' = [messages EXCEPT ![p] =
       BuildMessages(active_dataset_id, data_frames, document_meta,
                     conversation_history, user_message[p])]
  /\ pc' = [pc EXCEPT ![p] = "append_user"]
  /\ UNCHANGED <<user_message, tool_calls, next_call, response_data, dispatched,
                 provider_calls, faulted, hist0, interleaved, appended, chats>>
  /\ UNCHANGED storeVars
  /\ UNCHANGED <<sbVars, ctVars>>

\* store.conversation_history.append({"role": "user", ...}); response_data = {...}
ChatAppendUser(p) ==
  /\ pc[p] = "append_user"
  /\ conversation_history' = AppendTurn(conversation_history, UserTurn(user_message[p]))
  /\ appended' = [appended EXCEPT ![p] = Append(@, UserTurn(user_message[p]))]
  /\ response_data' = [response_data EXCEPT ![p] = EmptyResponse]
  /\ interleaved' = MarkOthers(p)
  /\ pc' = [pc EXCEPT ![p] = "first_call"]
  /\ UNCHANGED <<user_message, messages, tool_calls, next_call, dispatched,
                 provider_calls, faulted, hist0, chats>>
  /\ UNCHANGED <<data_frames, data_meta, active_dataset_id, document_meta, uploads,
                 api_response>>
  /\ UNCHANGED <<sbVars, ctVars>>

\* First client.chat.complete(model, messages, tools=TOOLS) and the branch on
\* assistant_msg.tool_calls.
ChatFirstCall(p, responses) ==
  /\ pc[p] = "first_call"
  /\ provider_calls' = [provider_calls EXCEPT ![p] = Append(@, "tools")]
  /\ \E r \in responses :
       IF r.fault
         THEN /\ response_data' = [response_data EXCEPT ![p] = OnFault(@)]
              /\ faulted' = [faulted EXCEPT ![p] = TRUE]
              /\ pc' = [pc EXCEPT ![p] = "append_assistant"]
              /\ UNCHANGED <<tool_calls, next_call, messages>>
         ELSE IF r.tool_calls = <<>>
           THEN /\ response_data' = [response_data EXCEPT ![p].text = r.content]
                /\ pc' = [pc EXCEPT ![p] = "append_assistant"]
                /\ UNCHANGED <<tool_calls, next_call, messages, faulted>>
           ELSE /\ tool_calls' = [tool_calls EXCEPT ![p] = r.tool_calls]
                /\ next_call' = [next_call EXCEPT ![p] = 1]
                /\ messages' = [messages EXCEPT ![p] =
                     Append(@, [role |-> "assistant", tool_calls |-> r.tool_calls])]
                /\ pc' = [pc EXCEPT ![p] = "tool_loop"]
                /\ UNCHANGED <<response_data, faulted>>
  /\ UNCHANGED <<user_message, dispatched, hist0, interleaved, appended, chats>>
  /\ UNCHANGED storeVars
  /\ UNCHANGED <<sbVars, ctVars>>

\* One iteration of the for loop whose json.loads(tool_call.function.arguments)
\* raises.
ChatParseFault(p) ==
  /\ pc[p] = "tool_loop"
  /\ tool_calls[p][next_call[p]].arguments = BadJson
  /\ response_data' = [response_data EXCEPT ![p] = OnFault(@)]
  /\ faulted' = [faulted EXCEPT ![p] = TRUE]
  /\ pc' = [pc EXCEPT ![p] = "append_assistant"]
  /\ UNCHANGED <<user_message, messages, tool_calls, next_call, dispatched,
                 provider_calls, hist0, interleaved, appended, chats>>
  /\ UNCHANGED storeVars
  /\ UNCHANGED <<sbVars, ctVars>>

\* The table the dispatcher hands to the collaborator.
ActiveRows(active, frames) == IF active \in DOMAIN frames THEN frames[active] ELSE 0

\* json.dumps(tool_result, default=str): values it cannot encode are passed
\* through str, but a dict whose keys are tuples is a TypeError.
Serializable(env) ==
  ~("result" \in DOMAIN env /\ "tuple_keys" \in DOMAIN env.result)

JsonDumps(env) == [json |-> env]

\* messages.append({"role": "tool", "name": fn_name, "content": json.dumps(...),
\* "tool_call_id": tool_call.id}).
\* Fault injection: an envelope that carries an error is not passed on.
AppendToolMessage_SkipErrors(msgs, tc, env) ==
  IF "error" \in DOMAIN env /\ Truthy(env.error)
    THEN msgs
    ELSE Append(msgs, [role |-> "tool", name |-> tc.name, content |-> JsonDumps(env),
                       tool_call_id |-> tc.id])

AppendToolMessage(msgs, tc, env) ==
  Append(msgs, [role |-> "tool", name |-> tc.name, content |-> JsonDumps(env),
                tool_call_id |-> tc.id])

\* Where the for loop goes after call i of n returned `env`.
\* Fault injection: an envelope that carries an error ends the loop.
AfterToolCall_StopOnError(env, i, n) ==
  IF "error" \in DOMAIN env /\ Truthy(env.error) THEN "append_assistant"
  ELSE IF i = n THEN "second_call" ELSE "tool_loop"

AfterToolCall(env, i, n) == IF i = n THEN "second_call" ELSE "tool_loop"

\* The table object bound to `df` in the script's globals.
\* Fault injection: the store's own table is bound instead of a copy.
ScriptBinding_Alias(active) == [table |-> active]

\* "df": df.copy()
ScriptBinding(active) == [table |-> "copy"]

\* What a script can do to its `df` binding: nothing, change the object in
\* place (here: drop every row), or rebind the name.
ScriptEffects(out) ==
  IF out.invoked = "execute_code" THEN {"none", "mutate", "rebind"} ELSE {"none"}

\* store.data_frames once the script has run: an in-place change shows in the
\* store exactly when the object bound to `df` is a stored table.
FramesAfterScript(frames, binding, effect) ==
  IF effect = "mutate" /\ binding.table \in DOMAIN frames
    THEN [frames EXCEPT ![binding.table] = 0]
    ELSE frames

\* One iteration of the for loop: parse, _execute_tool, fold, append the tool
\* message.
ChatDispatch(p, sizes, sandbox) ==
  /\ pc[p] = "tool_loop"
  /\ LET tc == tool_calls[p][next_call[p]] IN
       /\ tc.arguments # BadJson
       /\ \E collab \in CollabOutcomes(tc.name,
                                       ActiveRows(active_dataset_id, data_frames),
                                       sizes, Charts, sandbox) :
            LET out == ExecuteTool(tc.name, tc.arguments, active_dataset_id,
                                   data_frames, collab) IN
              \E effect \in ScriptEffects(out) :
              /\ dispatched' = [dispatched EXCEPT ![p] =
                   Append(@, [id |-> tc.id, name |-> tc.name, args |-> tc.arguments,
                              active |-> active_dataset_id, collab |-> collab,
                              effect |-> effect, out |-> out])]
              /\ data_frames' = FramesAfterScript(data_frames,
                                                  ScriptBinding(active_dataset_id), effect)
              /\ IF out.raised
                   THEN /\ response_data' = [response_data EXCEPT ![p] = OnFault(@)]
                        /\ faulted' = [faulted EXCEPT ![p] = TRUE]
                        /\ pc' = [pc EXCEPT ![p] = "append_assistant"]
                        /\ UNCHANGED <<messages, next_call>>
                   ELSE IF ~Serializable(out.env)
                     THEN /\ response_data' = [response_data EXCEPT ![p] =
                               OnFault(Fold(@, out.env))]
                          /\ faulted' = [faulted EXCEPT ![p] = TRUE]
                          /\ pc' = [pc EXCEPT ![p] = "append_assistant"]
                          /\ UNCHANGED <<messages, next_call>>
                   ELSE /\ response_data' = [response_data EXCEPT ![p] = Fold(@, out.env)]
                        /\ messages' = [messages EXCEPT ![p] =
                             AppendToolMessage(@, tc, out.env)]
                        /\ next_call' = [next_call EXCEPT ![p] = @ + 1]
                        /\ pc' = [pc EXCEPT ![p] =
                             AfterToolCall(out.env, next_call[p], Len(tool_calls[p]))]
                        /\ UNCHANGED faulted
  /\ UNCHANGED <<user_message, tool_calls, provider_calls, hist0, interleaved, appended, chats>>
  /\ UNCHANGED <<data_meta, active_dataset_id, document_meta, conversation_history,
                 uploads, api_response>>
  /\ UNCHANGED <<sbVars, ctVars>>

\* Second client.chat.complete(model, messages): no tools offered.
ChatSecondCall(p) ==
  /\ pc[p] = "second_call"
  /\ provider_calls' = [provider_calls EXCEPT ![p] = Append(@, "no_tools")]
  /\ \E ok \in BOOLEAN :
       IF ok
         THEN /\ response_data' = [response_data EXCEPT ![p].text = "summary"]
              /\ UNCHANGED faulted
         ELSE /\ response_data' = [response_data EXCEPT ![p] = OnFault(@)]
              /\ faulted' = [faulted EXCEPT ![p] = TRUE]
  /\ pc' = [pc EXCEPT ![p] = "append_assistant"]
  /\ UNCHANGED <<user_message, messages, tool_calls, next_call, dispatched,
                 hist0, interleaved, appended, chats>>
  /\ UNCHANGED storeVars
  /\ UNCHANGED <<sbVars, ctVars>>

\* store.conversation_history.append({"role": "assistant", ...}); return
ChatAppendAssistant(p) ==
  /\ pc[p] = "append_assistant"
  /\ conversation_history' = AppendTurn(conversation_history, AssistantTurn(response_data[p]))
  /\ appended' = [appended EXCEPT ![p] = Append(@, AssistantTurn(response_data[p]))]
  /\ interleaved' = MarkOthers(p)
  /\ pc' = [pc EXCEPT ![p] = "done"]
  /\ UNCHANGED <<user_message, messages, tool_calls, next_call, response_data,
                 dispatched, provider_calls, faulted, hist0, chats>>
  /\ UNCHANGED <<data_frames, data_meta, active_dataset_id, document_meta, uploads,
                 api_response>>
  /\ UNCHANGED <<sbVars, ctVars>>

\* send_message answers (the response, or HTTP 500 when chat() raised) and the
\* handler is free for the next request.
ChatReturn(p) ==
  /\ pc[p] \in {"done", "raised"}
  /\ pc' = [pc EXCEPT ![p] = "idle"]
  /\ user_message' = [user_message EXCEPT ![p] = ""]
  /\ messages' = [messages EXCEPT ![p] = <<>>]
  /\ tool_calls' = [tool_calls EXCEPT ![p] = <<>>]
  /\ next_call' = [next_call EXCEPT ![p] = 1]
  /\ response_data' = [response_data EXCEPT ![p] = EmptyResponse]
  /\ dispatched' = [dispatched EXCEPT ![p] = <<>>]
  /\ provider_calls' = [provider_calls EXCEPT ![p] = <<>>]
  /\ faulted' = [faulted EXCEPT ![p] = FALSE]
  /\ hist0' = [hist0 EXCEPT ![p] = <<>>]
  /\ interleaved' = [interleaved EXCEPT ![p] = FALSE]
  /\ appended' = [appended EXCEPT ![p] = <<>>]
  /\ UNCHANGED chats
  /\ UNCHANGED storeVars
  /\ UNCHANGED <<sbVars, ctVars>>

ChatStep(p, responses, sizes, sandbox) ==
  \/ ChatStart(p)
  \/ ChatGetClient(p)
  \/ ChatBuildPrompt(p)
  \/ ChatAppendUser(p)
  \/ ChatFirstCall(p, responses)
  \/ ChatParseFault(p)
  \/ ChatDispatch(p, sizes, sandbox)
  \/ ChatSecondCall(p)
  \/ ChatAppendAssistant(p)
  \/ ChatReturn(p)

\* ------------------------------------------------ execute_code step by step
SbCalls == {1, 2}

TimeoutText == "Code execution timed out (10s limit)."

\* What a script does: it ends with its bindings (`fig` a chart or unbound,
\* `result` a value or unbound), it raises, it loops forever, or it loops
\* forever around a bare `except:` that swallows whatever is raised inside.
SbScripts ==
  {[kind |-> "raise"], [kind |-> "loop"], [kind |-> "loop_catch"]}
    \cup {[kind |-> "ok", fig |-> f, result |-> r] :
            f \in {None, "c1"},
            r \in {PyNone, [type |-> "DataFrame", rows |-> SandboxPreviewRows + 1]}}

NonTerminating(script) == script.kind \in {"loop", "loop_catch"}

SbFrame == UNCHANGED <<storeVars, chatVars, ctVars>>

\* The calls that are between entry and exit.
SbInFlight == {c \in SbCalls : sb_pc[c] \notin {"idle", "returned", "raised"}}

\* execute_code(code, df) is entered in some thread; a thread runs one call.
SbCall(c, thread, script) ==
  /\ sb_pc[c] = "idle"
  /\ thread = "main" => \A d \in SbInFlight : sb_thread[d] # "main"
  /\ sb_pc' = [sb_pc EXCEPT ![c] = "signal"]
  /\ sb_thread' = [sb_thread EXCEPT ![c] = thread]
  /\ sb_script' = [sb_script EXCEPT ![c] = script]
  /\ UNCHANGED <<sb_old_handler, sb_output, sb_escaping, sb_fault, sb_spin,
                 alarm_pending, alarm_handler>>
  /\ SbFrame

\* old_handler = signal.signal(SIGALRM, _timeout_handler): ValueError outside
\* the main thread, which skips signal.alarm too.
SbSignal(c) ==
  /\ sb_pc[c] = "signal"
  /\ IF sb_thread[c] = "main"
       THEN /\ sb_old_handler' = [sb_old_handler EXCEPT ![c] = alarm_handler]
            /\ alarm_handler' = "_timeout_handler"
            /\ sb_pc' = [sb_pc EXCEPT ![c] = "alarm"]
       ELSE /\ sb_pc' = [sb_pc EXCEPT ![c] = "output"]
            /\ UNCHANGED <<sb_old_handler, alarm_handler>>
  /\ UNCHANGED <<sb_thread, sb_script, sb_output, sb_escaping, sb_fault, sb_spin,
                 alarm_pending>>
  /\ SbFrame

\* signal.alarm(timeout_seconds)
SbAlarm(c) ==
  /\ sb_pc[c] = "alarm"
  /\ alarm_pending' = TRUE
  /\ sb_pc' = [sb_pc EXCEPT ![c] = "output"]
  /\ UNCHANGED <<sb_thread, sb_script, sb_old_handler, sb_output, sb_escaping,
                 sb_fault, sb_spin, alarm_handler>>
  /\ SbFrame

\* output = {"result": None, "plot_json": None, "error": None}; try: exec(...)
SbOutput(c) ==
  /\ sb_pc[c] = "output"
  /\ sb_output' = [sb_output EXCEPT ![c] = SandboxOutput(PyNone, None, None)]
  /\ sb_pc' = [sb_pc EXCEPT ![c] = "exec"]
  /\ UNCHANGED <<sb_thread, sb_script, sb_old_handler, sb_escaping, sb_fault,
                 sb_spin, alarm_pending, alarm_handler>>
  /\ SbFrame

\* exec(code, ...) comes to an end: the script finishes or raises.
SbScriptEnds(c) ==
  /\ sb_pc[c] = "exec"
  /\ sb_script[c].kind \in {"ok", "raise"}
  /\ IF sb_script[c].kind = "ok"
       THEN /\ sb_pc' = [sb_pc EXCEPT ![c] = "extract_fig"]
            /\ UNCHANGED sb_fault
       ELSE /\ sb_pc' = [sb_pc EXCEPT ![c] = "except_exc"]
            /\ sb_fault' = [sb_fault EXCEPT ![c] = TRUE]
  /\ UNCHANGED <<sb_thread, sb_script, sb_old_handler, sb_output, sb_escaping,
                 sb_spin, alarm_pending, alarm_handler>>
  /\ SbFrame

\* One more iteration of a script that loops forever.
SbScriptSpins(c) ==
  /\ sb_pc[c] = "exec"
  /\ NonTerminating(sb_script[c])
  /\ sb_spin' = [sb_spin EXCEPT ![c] = 1 - @]
  /\ UNCHANGED <<sb_pc, sb_thread, sb_script, sb_old_handler, sb_output,
                 sb_escaping, sb_fault, alarm_pending, alarm_handler>>
  /\ SbFrame

\* if "fig" in local_vars: output["plot_json"] = pio.to_json(fig)
SbExtractFig(c) ==
  /\ sb_pc[c] = "extract_fig"
  /\ \/ /\ sb_output' = [sb_output EXCEPT ![c].plot_json = sb_script[c].fig]
        /\ sb_pc' = [sb_pc EXCEPT ![c] = "extract_result"]
        /\ UNCHANGED sb_fault
     \/ /\ sb_script[c].fig # None
        /\ sb_pc' = [sb_pc EXCEPT ![c] = "except_exc"]
        /\ sb_fault' = [sb_fault EXCEPT ![c] = TRUE]
        /\ UNCHANGED sb_output
  /\ UNCHANGED <<sb_thread, sb_script, sb_old_handler, sb_escaping, sb_spin,
                 alarm_pending, alarm_handler>>
  /\ SbFrame

\* if "result" in local_vars: output["result"] = ... by the type of `result`
SbExtractResult(c) ==
  /\ sb_pc[c] = "extract_result"
  /\ \/ /\ sb_output' = [sb_output EXCEPT ![c].result = ExtractResult(sb_script[c].result)]
        /\ sb_pc' = [sb_pc EXCEPT ![c] = "finally_alarm"]
        /\ UNCHANGED sb_fault
     \/ /\ sb_script[c].result # PyNone
        /\ sb_pc' = [sb_pc EXCEPT ![c] = "except_exc"]
        /\ sb_fault' = [sb_fault EXCEPT ![c] = TRUE]
        /\ UNCHANGED sb_output
  /\ UNCHANGED <<sb_thread, sb_script, sb_old_handler, sb_escaping, sb_spin,
                 alarm_pending, alarm_handler>>
  /\ SbFrame

\* except SandboxTimeout: output["error"] = "Code execution timed out (10s limit)."
SbExceptTimeout(c) ==
  /\ sb_pc[c] = "except_timeout"
  /\ sb_output' = [sb_output EXCEPT ![c].error = TimeoutText]
  /\ sb_pc' = [sb_pc EXCEPT ![c] = "finally_alarm"]
  /\ UNCHANGED <<sb_thread, sb_script, sb_old_handler, sb_escaping, sb_fault,
                 sb_spin, alarm_pending, alarm_handler>>
  /\ SbFrame

\* except Exception: output["error"] = traceback.format_exc()
SbExceptException(c) ==
  /\ sb_pc[c] = "except_exc"
  /\ sb_output' = [sb_output EXCEPT ![c].error = "Traceback"]
  /\ sb_pc' = [sb_pc EXCEPT ![c] = "finally_alarm"]
  /\ UNCHANGED <<sb_thread, sb_script, sb_old_handler, sb_escaping, sb_fault,
                 sb_spin, alarm_pending, alarm_handler>>
  /\ SbFrame

\* Fault injection: a deadline per call; the cleanup cancels only the alarm the
\* call armed itself.
SbFinallyAlarm_OwnDeadline(c) ==
  /\ sb_pc[c] = "finally_alarm"
  /\ alarm_pending' = (alarm_pending /\ sb_thread[c] # "main")
  /\ sb_pc' = [sb_pc EXCEPT ![c] = "finally_restore"]
  /\ UNCHANGED <<sb_thread, sb_script, sb_old_handler, sb_output, sb_escaping,
                 sb_fault, sb_spin, alarm_handler>>
  /\ SbFrame

\* finally: signal.alarm(0), which any thread may call.
SbFinallyAlarm(c) ==
  /\ sb_pc[c] = "finally_alarm"
  /\ alarm_pending' = FALSE
  /\ sb_pc' = [sb_pc EXCEPT ![c] = "finally_restore"]
  /\ UNCHANGED <<sb_thread, sb_script, sb_old_handler, sb_output, sb_escaping,
                 sb_fault, sb_spin, alarm_handler>>
  /\ SbFrame

\* Fault injection: the cleanup cancels the alarm but does not put the previous
\* handler back.
SbFinallyRestore_KeepsHandler(c) ==
  /\ sb_pc[c] = "finally_restore"
  /\ alarm_handler' = alarm_handler
  /\ sb_pc' = [sb_pc EXCEPT ![c] = IF sb_escaping[c] THEN "raised" ELSE "returned"]
  /\ UNCHANGED <<sb_thread, sb_script, sb_old_handler, sb_output, sb_escaping,
                 sb_fault, sb_spin, alarm_pending>>
  /\ SbFrame

\* if old_handler is not None: signal.signal(SIGALRM, old_handler); then
\* return output, or let the exception that entered the finally block go on.
SbFinallyRestore(c) ==
  /\ sb_pc[c] = "finally_restore"
  /\ alarm_handler' =
       IF sb_old_handler[c] # None THEN sb_old_handler[c] ELSE alarm_handler
  /\ sb_pc' = [sb_pc EXCEPT ![c] = IF sb_escaping[c] THEN "raised" ELSE "returned"]
  /\ UNCHANGED <<sb_thread, sb_script, sb_old_handler, sb_output, sb_escaping,
                 sb_fault, sb_spin, alarm_pending>>
  /\ SbFrame

\* The caller has the output (or the exception); the slot is free again.
SbDone(c) ==
  /\ sb_pc[c] \in {"returned", "raised"}
  /\ sb_pc' = [sb_pc EXCEPT ![c] = "idle"]
  /\ sb_thread' = [sb_thread EXCEPT ![c] = "worker"]
  /\ sb_script' = [sb_script EXCEPT ![c] = [kind |-> "raise"]]
  /\ sb_old_handler' = [sb_old_handler EXCEPT ![c] = None]
  /\ sb_output' = [sb_output EXCEPT ![c] = SandboxOutput(PyNone, None, None)]
  /\ sb_escaping' = [sb_escaping EXCEPT ![c] = FALSE]
  /\ sb_fault' = [sb_fault EXCEPT ![c] = FALSE]
  /\ sb_spin' = [sb_spin EXCEPT ![c] = 0]
  /\ UNCHANGED <<alarm_pending, alarm_handler>>
  /\ SbFrame

\* Where the main thread is when _timeout_handler raises SandboxTimeout in it,
\* and where that takes the call.  The deadline is ten seconds after arming: it
\* does not elapse before exec has begun.
SbInterruptible ==
  {"exec", "extract_fig", "extract_result", "except_timeout", "except_exc",
   "finally_alarm"}

SbAfterTimeout(c) ==
  CASE sb_pc[c] = "exec" ->
         IF sb_script[c].kind = "loop_catch" THEN "exec" ELSE "except_timeout"
    [] sb_pc[c] \in {"extract_fig", "extract_result"} -> "except_timeout"
    [] sb_pc[c] \in {"except_timeout", "except_exc"} -> "finally_alarm"
    [] OTHER -> "raised"

\* The alarm goes off: the kernel delivers SIGALRM once and Python runs
\* _timeout_handler in the main thread, between two bytecodes of whatever the
\* main thread is executing.
AlarmFires ==
  /\ alarm_pending
  /\ alarm_handler = "_timeout_handler"
  /\ \E c \in SbInFlight :
       /\ sb_thread[c] = "main"
       /\ sb_pc[c] \in SbInterruptible
       /\ sb_pc' = [sb_pc EXCEPT ![c] = SbAfterTimeout(c)]
       /\ sb_escaping' = [sb_escaping EXCEPT ![c] =
            @ \/ sb_pc[c] \in {"except_timeout", "except_exc"}]
       /\ sb_fault' = [sb_fault EXCEPT ![c] = TRUE]
  /\ alarm_pending' = FALSE
  /\ UNCHANGED <<sb_thread, sb_script, sb_old_handler, sb_output, sb_spin,
                 alarm_handler>>
  /\ SbFrame

\* The steps of one call once it is entered.
SbRun(c) ==
  \/ SbSignal(c)
  \/ SbAlarm(c)
  \/ SbOutput(c)
  \/ SbScriptEnds(c)
  \/ SbScriptSpins(c)
  \/ SbExtractFig(c)
  \/ SbExtractResult(c)
  \/ SbExceptTimeout(c)
  \/ SbExceptException(c)
  \/ SbFinallyAlarm(c)
  \/ SbFinallyRestore(c)
  \/ SbDone(c)

SbInit ==
  /\ sb_pc = [c \in SbCalls |-> "idle"]
  /\ sb_thread = [c \in SbCalls |-> "worker"]
  /\ sb_script = [c \in SbCalls |-> [kind |-> "raise"]]
  /\ sb_old_handler = [c \in SbCalls |-> None]
  /\ sb_output = [c \in SbCalls |-> SandboxOutput(PyNone, None, None)]
  /\ sb_escaping = [c \in SbCalls |-> FALSE]
  /\ sb_fault = [c \in SbCalls |-> FALSE]
  /\ sb_spin = [c \in SbCalls |-> 0]
  /\ alarm_pending = FALSE
  /\ alarm_handler = "SIG_DFL"

\* ---------------------------------------------------- chunk_text step by step
\* The characters a text is made of: a letter and a whitespace character.
Chars == {"a", " "}

\* str.strip(): leading and trailing whitespace removed.
RECURSIVE LStrip(_)
LStrip(t) == IF t # <<>> /\ Head(t) = " " THEN LStrip(Tail(t)) ELSE t

RECURSIVE RStrip(_)
RStrip(t) ==
  IF t # <<>> /\ t[Len(t)] = " " THEN RStrip(SubSeq(t, 1, Len(t) - 1)) ELSE t

Strip(t) == RStrip(LStrip(t))

\* text[start:end] for 0 <= start <= end.
Slice(t, start, end) == SubSeq(t, start + 1, IF end < Len(t) THEN end ELSE Len(t))

IsNonEmpty(c) == c # <<>>

\* Fault injection: the chunks are returned as collected.
ChunkResult_Unfiltered(chunks) == chunks

\* [c for c in chunks if c]
ChunkResult(chunks) == SelectSeq(chunks, IsNonEmpty)

CtFrame == UNCHANGED <<storeVars, chatVars, sbVars>>

\* chunk_text(text, chunk_size, overlap) is called.
ChunkCall(text, chunk_size, overlap) ==
  /\ ct_pc = "idle"
  /\ ct_pc' = "check"
  /\ ct_text' = text
  /\ ct_size' = chunk_size
  /\ ct_overlap' = overlap
  /\ UNCHANGED <<ct_start, ct_chunks, ct_windows, ct_result>>
  /\ CtFrame

\* if not text: return []; chunks = []; start = 0
ChunkCheck ==
  /\ ct_pc = "check"
  /\ IF ct_text = <<>>
       THEN /\ ct_result' = <<>>
            /\ ct_pc' = "returned"
       ELSE /\ ct_pc' = "loop"
            /\ UNCHANGED ct_result
  /\ ct_start' = 0
  /\ ct_chunks' = <<>>
  /\ ct_windows' = <<>>
  /\ UNCHANGED <<ct_text, ct_size, ct_overlap>>
  /\ CtFrame

\* One iteration of `while start < len(text)`.
ChunkIterate ==
  /\ ct_pc = "loop"
  /\ ct_start < Len(ct_text)
  /\ LET end == ct_start + ct_size IN
       /\ ct_chunks' = Append(ct_chunks, Strip(Slice(ct_text, ct_start, end)))
       /\ ct_windows' = Append(ct_windows, [start |-> ct_start, end |-> end])
       /\ ct_start' = end - ct_overlap
  /\ UNCHANGED <<ct_pc, ct_text, ct_size, ct_overlap, ct_result>>
  /\ CtFrame

\* The loop condition fails: return [c for c in chunks if c].
ChunkReturn ==
  /\ ct_pc = "loop"
  /\ ct_start >= Len(ct_text)
  /\ ct_result' = ChunkResult(ct_chunks)
  /\ ct_pc' = "returned"
  /\ UNCHANGED <<ct_text, ct_size, ct_overlap, ct_start, ct_chunks, ct_windows>>
  /\ CtFrame

\* The caller has the list.
ChunkDone ==
  /\ ct_pc = "returned"
  /\ ct_pc' = "idle"
  /\ ct_text' = <<>>
  /\ ct_size' = 1
  /\ ct_overlap' = 0
  /\ ct_start' = 0
  /\ ct_chunks' = <<>>
  /\ ct_windows' = <<>>
  /\ ct_result' = <<>>
  /\ CtFrame

ChunkRun == ChunkCheck \/ ChunkIterate \/ ChunkReturn \/ ChunkDone

CtInit ==
  /\ ct_pc = "idle"
  /\ ct_text = <<>>
  /\ ct_size = 1
  /\ ct_overlap = 0
  /\ ct_start = 0
  /\ ct_chunks = <<>>
  /\ ct_windows = <<>>
  /\ ct_result = <<>>

StoreInit ==
  /\ data_frames = EmptyFcn
  /\ data_meta = EmptyFcn
  /\ active_dataset_id = None
  /\ document_meta = {}
  /\ conversation_history = <<>>
  /\ uploads = 0
  /\ api_response = [status |-> "none"]

ChatInit ==
  /\ pc = [p \in Procs |-> "idle"]
  /\ user_message = [p \in Procs |-> ""]
  /\ messages = [p \in Procs |-> <<>>]
  /\ tool_calls = [p \in Procs |-> <<>>]
  /\ next_call = [p \in Procs |-> 1]
  /\ response_data = [p \in Procs |-> EmptyResponse]
  /\ dispatched = [p \in Procs |-> <<>>]
  /\ provider_calls = [p \in Procs |-> <<>>]
  /\ faulted = [p \in Procs |-> FALSE]
  /\ hist0 = [p \in Procs |-> <<>>]
  /\ interleaved = [p \in Procs |-> FALSE]
  /\ appended = [p \in Procs |-> <<>>]
  /\ chats = 0

vars == <<storeVars, chatVars, sbVars, ctVars>>

Init == StoreInit /\ ChatInit /\ SbInit /\ CtInit

AllIdle == \A p \in Procs : pc[p] = "idle"

\* POST /upload of the data router and of the documents router.
UploadStep(rowChoices) ==
  \/ \E rows \in rowChoices : UploadData(rows)
  \/ UploadDocument

\* store.clear_all and POST /clear.
ClearStep ==
  \/ ClearAll
  \/ ClearHistory

StoreStep(rowChoices) ==
  \/ UploadStep(rowChoices)
  \/ ClearStep

\* Successive chat() invocations over a growing history, with uploads between
\* them; the clears of other requests fall between them and between the steps
\* of one of them.  The model provider answers with at most one tool call.
Next ==
  \/ AllIdle /\ UploadStep(UploadRows)
  \/ ClearStep
  \/ ChatStep(1, HistoryResponses, ChatTableSizes, {[raised |-> TRUE]})

Spec == Init /\ [][Next]_vars

\* One chat() invocation whose first response carries up to MaxCalls tool
\* calls, after the uploads and clears that precede it.
LoopNext ==
  \/ chats = 0 /\ StoreStep(UploadRows)
  \/ ChatStep(1, FirstResponses, ChatTableSizes, ChatSandboxOutcomes) /\ chats' = 1

LoopSpec == Init /\ [][LoopNext]_vars

\* ------------------------------------------------ data router table endpoints
\* _get_df(file_id): the file id to use, or None when it answers 404.
GetDf(file_id, active, frames) ==
  LET fid == IF Truthy(file_id) THEN file_id ELSE active IN
    IF ~Truthy(fid) \/ fid \notin DOMAIN frames THEN None ELSE fid

\* DataResponse of filter_endpoint for a filter result of `rows` rows.
FilterResponse(rows) ==
  [status |-> "200", endpoint |-> "filter",
   data |-> Min(rows, ApiPreviewRows), columns |-> "cols", row_count |-> rows]

\* DataResponse of aggregate_endpoint for a group-by result of `rows` rows.
AggregateResponse(rows) ==
  [status |-> "200", endpoint |-> "aggregate",
   data |-> rows, columns |-> "cols", row_count |-> rows]

ApiUnchanged ==
  /\ UNCHANGED <<data_frames, data_meta, active_dataset_id, document_meta,
                 conversation_history, uploads>>
  /\ UNCHANGED chatVars
  /\ UNCHANGED <<sbVars, ctVars>>

\* POST /filter
FilterEndpoint(file_id, sizes) ==
  /\ LET fid == GetDf(file_id, active_dataset_id, data_frames) IN
       IF fid = None
         THEN api_response' = [status |-> "404"]
         ELSE \E o \in TableOutcomes(data_frames[fid], sizes) :
                api_response' = IF o.fault THEN [status |-> "400"]
                                ELSE FilterResponse(o.rows)
  /\ ApiUnchanged

\* POST /aggregate
AggregateEndpoint(file_id, sizes) ==
  /\ LET fid == GetDf(file_id, active_dataset_id, data_frames) IN
       IF fid = None
         THEN api_response' = [status |-> "404"]
         ELSE \E o \in TableOutcomes(data_frames[fid], sizes) :
                api_response' = IF o.fault THEN [status |-> "400"]
                                ELSE AggregateResponse(o.rows)
  /\ ApiUnchanged

\* ------------------------------------------- inputs explored under ToolSpec
\* Table sizes on both sides of the two preview limits.
ToolTableSizes ==
  {0, 1, ChatPreviewRows, ChatPreviewRows + 1, SandboxPreviewRows,
   SandboxPreviewRows + 1}

ToolUploadRows == {1, SandboxPreviewRows + 1}

UnknownNames == {"no_such_tool", "filter", ""}

\* Every argument name a tool schema declares, and an undeclared one.
DeclaredArgs(name) ==
  CASE name = "generate_plot" -> RequiredArgs(name) \cup {"y_column", "title"}
    [] name = "search_documents" -> RequiredArgs(name) \cup {"top_k"}
    [] name \in ToolNames -> RequiredArgs(name) \cup {"extra"}
    [] OTHER -> {"conditions", "code"}

ArgValue(key) == IF key = "top_k" THEN 1 ELSE "v"

\* Every argument map over the declared names: each name present or missing.
ArgChoices(name) == {[k \in ks |-> ArgValue(k)] : ks \in SUBSET DeclaredArgs(name)}

ToolCallChoices ==
  UNION {{[name |-> n, arguments |-> a] : a \in ArgChoices(n) \cup {BadJson}} :
           n \in ToolNames \cup UnknownNames}

ToolResponses ==
  {[fault |-> FALSE, content |-> None, tool_calls |-> WithIds(<<c>>)] :
     c \in ToolCallChoices}

ToolFileIds == {None, FileId(1), FileId(MaxUploads + 1)}

\* One chat() invocation whose first response carries one tool call, for every
\* tool name and argument map, every collaborator outcome and every table size
\* around the preview limits; and the table endpoints of the data router.
ToolNext ==
  \/ chats = 0 /\ StoreStep(ToolUploadRows)
  \/ ChatStep(1, ToolResponses, ToolTableSizes, SandboxOutcomes(ToolTableSizes, Charts))
       /\ chats' = 1
  \/ chats = 0 /\ \E f \in ToolFileIds : FilterEndpoint(f, ToolTableSizes)
  \/ chats = 0 /\ \E f \in ToolFileIds : AggregateEndpoint(f, ToolTableSizes)

ToolSpec == Init /\ [][ToolNext]_vars

\* =========================================================== properties
IsPrefix(a, b) == Len(a) <= Len(b) /\ SubSeq(b, 1, Len(a)) = a

\* Every _execute_tool call logged by any invocation.
Dispatches == UNION {{dispatched[p][i] : i \in 1..Len(dispatched[p])} : p \in Procs}

\* C1 (as claimed): dispatch never raises; every dispatch, whatever the tool
\* name, the arguments, the store and the collaborator's behaviour, returns an
\* envelope.
C1_DispatchNeverRaises == \A d \in Dispatches : ~d.out.raised

\* An invocation of chat() has ended: it returned or it raised.
Ended(p) == pc[p] \in {"done", "raised"}

\* C2 (as claimed): every invocation of chat() that has ended has appended its
\* user turn and then exactly one assistant turn.
C2_TurnsAlwaysCommitted ==
  \A p \in Procs :
    Ended(p) =>
      /\ Len(appended[p]) = 2
      /\ appended[p][1].role = "user"
      /\ appended[p][2].role = "assistant"

\* C3: a successful chat() run without interleaving leaves the history equal
\* to the history it found followed by its user turn and its assistant turn,
\* in that order; while it runs the history it found stays in place as a prefix.
C3_TwoTurnsAppended ==
  \A p \in Procs :
    /\ (pc[p] # "idle" /\ ~interleaved[p]) => IsPrefix(hist0[p], conversation_history)
    /\ (pc[p] = "done" /\ ~faulted[p] /\ ~interleaved[p]) =>
         /\ Len(conversation_history) = Len(hist0[p]) + 2
         /\ conversation_history[Len(hist0[p]) + 1] =
              [role |-> "user", content |-> user_message[p]]
         /\ conversation_history[Len(hist0[p]) + 2].role = "assistant"
         /\ conversation_history[Len(hist0[p]) + 2].content = response_data[p].text

\* C3 witness: a successful invocation has returned on top of earlier turns.
C3_Witness ==
  /\ pc[1] = "done"
  /\ ~faulted[1]
  /\ ~interleaved[1]
  /\ Len(hist0[1]) >= 2
  /\ dispatched[1] # <<>>

\* The envelope of a dispatch carries a chart.
CarriesChart(d) ==
  /\ ~d.out.raised
  /\ "plot_json" \in DOMAIN d.out.env
  /\ d.out.env.plot_json \notin {None, ""}

\* The chart of the last logged dispatch that carries one; None when none does.
LastChart(log) ==
  LET with == {i \in 1..Len(log) : CarriesChart(log[i])} IN
    IF with = {} THEN None
    ELSE log[CHOOSE i \in with : \A j \in with : j <= i].out.env.plot_json

\* C6: tool calls are dispatched in the order of the first response, and the
\* response envelope's chart is the chart of the last dispatched call whose
\* envelope carries one (None when there is none), at every point of the loop
\* and in the committed assistant turn.
C6_LastChartWins ==
  \A p \in Procs :
    /\ Len(dispatched[p]) <= Len(tool_calls[p])
    /\ \A i \in 1..Len(dispatched[p]) :
         /\ dispatched[p][i].id = tool_calls[p][i].id
         /\ dispatched[p][i].name = tool_calls[p][i].name
         /\ dispatched[p][i].args = tool_calls[p][i].arguments
    /\ response_data[p].plot_json = LastChart(dispatched[p])
    /\ pc[p] = "done" =>
         /\ Len(dispatched[p]) = Len(tool_calls[p]) \/ faulted[p]
         /\ conversation_history[Len(conversation_history)].plot_json
              = LastChart(dispatched[p])

\* C6 witness: two tool calls each yielded a chart, the charts differ, and the
\* invocation has returned.
C6_Witness ==
  /\ pc[1] = "done"
  /\ Len(dispatched[1]) = 2
  /\ CarriesChart(dispatched[1][1])
  /\ CarriesChart(dispatched[1][2])
  /\ dispatched[1][1].out.env.plot_json # dispatched[1][2].out.env.plot_json

\* C7 (as claimed): every table envelope holds min(n, limit) preview rows and
\* reports row_count = n: limit 50 for the in-chat filter_data and
\* aggregate_data, 100 for the sandbox and for the filter and aggregate
\* endpoints of the data router.
C7_PreviewCapped ==
  /\ \A d \in Dispatches :
       /\ (d.name \in {"filter_data", "aggregate_data"} /\ ~d.out.raised
             /\ "data" \in DOMAIN d.out.env) =>
            /\ d.out.env.data = Min(d.collab.rows, ChatPreviewRows)
            /\ d.out.env.row_count = d.collab.rows
       /\ (d.name = "execute_pandas_code" /\ ~d.out.raised
             /\ "result" \in DOMAIN d.out.env
             /\ "row_count" \in DOMAIN d.out.env.result) =>
            d.out.env.result.data = Min(d.out.env.result.row_count, SandboxPreviewRows)
  /\ api_response.status = "200" =>
       api_response.data = Min(api_response.row_count, ApiPreviewRows)

\* Every dataset-requiring tool, with every argument map and every collaborator
\* behaviour, dispatched against the store that holds no dataset and no active
\* reference, returns the no-dataset error envelope.
DispatchOnClearedStore ==
  \A name \in DatasetTools :
    \A args \in ArgChoices(name) :
      \A collab \in CollabOutcomes(name, 0, ToolTableSizes, Charts,
                                   SandboxOutcomes(ToolTableSizes, Charts)) :
        LET out == ExecuteTool(name, args, None, EmptyFcn, collab) IN
          /\ ~out.raised
          /\ out.env = [error |-> "No dataset loaded."]
          /\ out.invoked = "none"

\* The postcondition of clear_all, read in the state it leaves.
AfterClearAll(history, active, frames) ==
  /\ history = <<>>
  /\ active = None
  /\ frames = EmptyFcn
  /\ Snapshot(history, HistoryWindow) = <<>>
  /\ DispatchOnClearedStore

\* C8: every clear_all step, from any reachable state, leaves the history
\* empty, no active dataset, an empty snapshot of the last 20 turns, and a
\* store in which every dataset-requiring tool is answered with the no-dataset
\* error envelope.
C8_ClearAllResets ==
  [][ClearAllStore =>
       AfterClearAll(conversation_history', active_dataset_id', data_frames')]_vars

\* C8 witness: a store that held uploads has been emptied (only clear_all
\* removes uploads), the history is empty after an earlier chat() invocation,
\* and the invocation now running found no turn and no dataset.
C8_Witness ==
  /\ uploads > 0
  /\ DOMAIN data_frames = {}
  /\ document_meta = {}
  /\ active_dataset_id = None
  /\ chats > 1
  /\ hist0[1] = <<>>
  /\ \E d \in Dispatches : d.name \in DatasetTools /\ d.out.env = [error |-> "No dataset loaded."]

\* C9: with no active dataset every dataset-requiring tool returns an envelope
\* whose only field is the error string, without raising and without calling
\* the tabular engine or the sandbox; search_documents is not guarded: given
\* its query it reaches the knowledge base whether or not a dataset is active.
C9_NoDatasetSoftError ==
  \A d \in Dispatches :
    /\ (d.name \in DatasetTools /\ d.active = None) =>
         /\ ~d.out.raised
         /\ DOMAIN d.out.env = {"error"}
         /\ d.out.env.error = "No dataset loaded."
         /\ d.out.invoked = "none"
    /\ (d.name = "search_documents" /\ "query" \in DOMAIN d.args) =>
         d.out.invoked = "kb_search"

\* C9 witness: with no dataset active, a sandbox call with its code argument
\* has been answered, and so has a document search.
C9_Witness ==
  /\ \E d \in Dispatches :
       d.name = "execute_pandas_code" /\ d.active = None /\ "code" \in DOMAIN d.args
  /\ pc[1] = "done"

\* C9 witness of the unguarded tool: a document search dispatched with no
\* dataset active returned results.
C9_SearchWitness ==
  \E d \in Dispatches :
    d.name = "search_documents" /\ d.active = None /\ ~d.out.raised

\* C10: a tool name outside the six built-in tools is answered with the error
\* envelope naming it, whatever the arguments and the active dataset, without
\* raising and without calling a collaborator.
C10_UnknownToolError ==
  \A d \in Dispatches :
    d.name \notin ToolNames =>
      /\ ~d.out.raised
      /\ d.out.env = [error |-> "Unknown tool: " \o d.name]
      /\ d.out.invoked = "none"

\* C10 witness: an unknown tool was dispatched with arguments while a dataset
\* was active, and the invocation went on to return.
C10_Witness ==
  /\ \E d \in Dispatches :
       d.name \notin ToolNames /\ d.active # None /\ DOMAIN d.args # {}
  /\ pc[1] = "done"
  /\ ~faulted[1]

\* ------------------------------------------------------------ sandbox alone
\* execute_code calls in the main thread and in worker threads of the serving
\* layer, with the process-wide alarm.
SandboxNext ==
  \/ \E c \in SbCalls, t \in {"main", "worker"}, script \in SbScripts : SbCall(c, t, script)
  \/ \E c \in SbCalls : SbRun(c)
  \/ AlarmFires

SandboxSpec == Init /\ [][SandboxNext]_vars

\* Every thread that is inside execute_code keeps running, and a pending alarm
\* is eventually delivered.
SandboxFairSpec ==
  /\ SandboxSpec
  /\ \A c \in SbCalls : WF_vars(SbRun(c))
  /\ WF_vars(AlarmFires)

\* C4 (as claimed): a call whose script never terminates on its own, in
\* whatever thread and whatever the script does with exceptions, is ended by
\* the deadline: it returns with the timeout fault in its error field.
C4_TimeoutAlwaysFires ==
  \A c \in SbCalls :
    (sb_pc[c] = "exec" /\ NonTerminating(sb_script[c]))
      ~> (sb_pc[c] = "returned" /\ sb_output[c].error = TimeoutText)

\* C5 (as claimed): no fault leaves execute_code; every call that ends returns
\* an output with exactly the fields result, plot_json and error, and the error
\* is a string whenever a fault or a timeout occurred.
C5_NoFaultEscapes ==
  \A c \in SbCalls :
    /\ sb_pc[c] # "raised"
    /\ sb_pc[c] = "returned" =>
         /\ DOMAIN sb_output[c] = {"result", "plot_json", "error"}
         /\ sb_fault[c] => sb_output[c].error # None

\* ------------------------------------------------------- faults of the provider
\* The first client.chat.complete raised: the except clause ran and no
\* response, hence no tool call, was ever received.
FirstCallFailed(p) ==
  /\ faulted[p]
  /\ provider_calls[p] = <<"tools">>
  /\ tool_calls[p] = <<>>

\* C11: when the first model call fails, the failure is caught: no tool is
\* dispatched, no second model call is made, the response envelope is the error
\* text with no chart and no table, and the invocation goes on to commit the
\* assistant turn and ends at DONE (it never raises).
C11_FirstCallFailureCaught ==
  \A p \in Procs :
    FirstCallFailed(p) =>
      /\ dispatched[p] = <<>>
      /\ response_data[p] = [text |-> ErrorText, plot_json |-> None,
                             table_data |-> NoRows, table_columns |-> None]
      /\ pc[p] \in {"append_assistant", "done"}
      /\ pc[p] = "done" =>
           /\ Len(appended[p]) = 2
           /\ appended[p][2].role = "assistant"
           /\ appended[p][2].content = ErrorText
           /\ appended[p][2].plot_json = None
           /\ appended[p][2].table_data = NoRows

C11_Witness ==
  \E p \in Procs :
    /\ FirstCallFailed(p)
    /\ pc[p] = "done"
    /\ ~interleaved[p]
    /\ Len(hist0[p]) > 0
    /\ conversation_history = hist0[p] \o appended[p]

\* ---------------------------------------------------------- the two-call loop
\* C12 (as claimed): the provider is called at most twice, first with the tools
\* and then without; the second call is made exactly when the first response
\* carried tool calls, and only after every one of them was dispatched; the
\* final text is the second call's text, or the first call's text when there
\* were no tool calls.
C12_TwoCallProtocol ==
  \A p \in Procs :
    /\ provider_calls[p] \in {<<>>, <<"tools">>, <<"tools", "no_tools">>}
    /\ Len(provider_calls[p]) = 2 =>
         /\ tool_calls[p] # <<>>
         /\ Len(dispatched[p]) = Len(tool_calls[p])
         /\ \A i \in DOMAIN dispatched[p] : ~dispatched[p][i].out.raised
    /\ pc[p] = "done" =>
         /\ Len(provider_calls[p]) = 2 <=> tool_calls[p] # <<>>
         /\ ~faulted[p] =>
              response_data[p].text = IF tool_calls[p] = <<>> THEN "answer" ELSE "summary"

\* --------------------------------------------------------- tool-output messages
IsToolMessage(m) == m.role = "tool"

ToolMessages(p) == SelectSeq(messages[p], IsToolMessage)

CarriesError(env) == "error" \in DOMAIN env /\ Truthy(env.error)

\* C13: the prompt context holds one tool-output message per tool call that has
\* returned, in the order of the tool calls, at the tail of the context, each
\* with that call's id and its envelope, error or not; when the second model
\* call is made there is one per tool call of the first response.
C13_OneToolMessagePerCall ==
  \A p \in Procs :
    LET tm == ToolMessages(p) IN
      /\ Len(tm) = next_call[p] - 1
      /\ \A i \in DOMAIN tm :
           /\ tm[i].tool_call_id = tool_calls[p][i].id
           /\ tm[i].name = tool_calls[p][i].name
           /\ tm[i].content = [json |-> dispatched[p][i].out.env]
           /\ messages[p][Len(messages[p]) - Len(tm) + i] = tm[i]
      /\ (pc[p] = "second_call" \/ Len(provider_calls[p]) = 2) =>
           Len(tm) = Len(tool_calls[p])

C13_Witness ==
  \E p \in Procs :
    /\ Len(provider_calls[p]) = 2
    /\ Len(tool_calls[p]) = 2
    /\ Len(ToolMessages(p)) = 2
    /\ CarriesError(ToolMessages(p)[1].content.json)
    /\ ~CarriesError(ToolMessages(p)[2].content.json)
    /\ ToolMessages(p)[1].tool_call_id # ToolMessages(p)[2].tool_call_id

\* ------------------------------------------------------ the user turn comes first
\* C14: whenever a model call has been made by an invocation, the invocation
\* has already appended the user turn carrying its message, and (when no other
\* request wrote to the history meanwhile) that turn sits in the stored history
\* right after the turns that were there on entry, whatever happened afterwards.
C14_UserTurnBeforeFirstCall ==
  \A p \in Procs :
    provider_calls[p] # <<>> =>
      /\ appended[p] # <<>>
      /\ appended[p][1] = [role |-> "user", content |-> user_message[p]]
      /\ ~interleaved[p] =>
           /\ Len(conversation_history) > Len(hist0[p])
           /\ conversation_history[Len(hist0[p]) + 1] =
                [role |-> "user", content |-> user_message[p]]

\* A first call that failed, with the user turn nonetheless recorded.
C14_Witness ==
  \E p \in Procs :
    /\ provider_calls[p] = <<"tools">>
    /\ faulted[p]
    /\ pc[p] = "append_assistant"
    /\ ~interleaved[p]
    /\ conversation_history = Append(hist0[p], [role |-> "user", content |-> user_message[p]])

\* --------------------------------------------------- chat() over long histories
\* The turns of earlier invocations: user and assistant turns in alternation.
PriorTurn(i) ==
  IF i % 2 = 1
    THEN [role |-> "user", content |-> "u" \o ToString(i)]
    ELSE [role |-> "assistant", content |-> "a" \o ToString(i), plot_json |-> None,
          table_data |-> NoRows, table_columns |-> None]

PriorHistory(h) == [i \in 1..h |-> PriorTurn(i)]

\* The store as earlier invocations left it: a history of any length up to
\* MaxHistory, no dataset.
PromptInit ==
  /\ data_frames = EmptyFcn
  /\ data_meta = EmptyFcn
  /\ active_dataset_id = None
  /\ document_meta = {}
  /\ conversation_history \in {PriorHistory(h) : h \in 0..MaxHistory}
  /\ uploads = 0
  /\ api_response = [status |-> "none"]
  /\ ChatInit
  /\ SbInit
  /\ CtInit

PromptNext == ChatStep(1, HistoryResponses, ChatTableSizes, {[raised |-> TRUE]})

PromptSpec == PromptInit /\ [][PromptNext]_vars

\* The positions of the context that hold the new user message.
OwnMessageAt(p) ==
  {i \in DOMAIN messages[p] :
     messages[p][i].role = "user" /\ messages[p][i].content = user_message[p]}

\* C15: for a history of h turns on entry, the prompt is the system message,
\* then the last min(h, 20) turns of that history in their order (role and
\* content), then the new user message, which occurs exactly once; and the
\* stored history still begins with everything that was there on entry.
C15_PromptWindow ==
  \A p \in Procs :
    messages[p] # <<>> =>
      LET h == Len(hist0[p])
          k == IF h < HistoryWindow THEN h ELSE HistoryWindow
      IN
        /\ Len(messages[p]) >= k + 2
        /\ messages[p][1].role = "system"
        /\ \A i \in 1..k :
             messages[p][1 + i] = [role |-> hist0[p][h - k + i].role,
                                   content |-> hist0[p][h - k + i].content]
        /\ OwnMessageAt(p) = {k + 2}
        /\ IsPrefix(hist0[p], conversation_history)

\* A prompt built over a history longer than the window.
C15_Witness ==
  \E p \in Procs :
    /\ Len(hist0[p]) > HistoryWindow
    /\ pc[p] = "first_call"
    /\ Len(messages[p]) = HistoryWindow + 2
    /\ Len(conversation_history) = Len(hist0[p]) + 1
    /\ messages[p][2].content = hist0[p][Len(hist0[p]) - HistoryWindow + 1].content
    /\ messages[p][2].content # hist0[p][1].content

\* ------------------------------------------------------ the process-wide alarm
\* A main-thread call inside a script that never ends, with no alarm pending
\* and none delivered to it: nothing is left to time it out.
Disarmed(c) ==
  /\ sb_thread[c] = "main"
  /\ sb_pc[c] = "exec"
  /\ sb_script[c].kind = "loop"
  /\ ~sb_fault[c]
  /\ ~alarm_pending

\* C16: the alarm is one per process.  The cleanup of any call, in any thread,
\* cancels whatever alarm is pending, its own or not; and once the deadline of
\* a call running a non-terminating script has been cancelled this way, the
\* call stays in its script for ever: no step times it out.
C16_CleanupDisarmsOthers ==
  [][\A c \in SbCalls :
       /\ (sb_pc[c] = "finally_alarm" /\ sb_pc'[c] = "finally_restore") => ~alarm_pending'
       /\ Disarmed(c) => Disarmed(c)']_vars

\* The interleaving: call d, in a worker thread, has just cancelled the alarm
\* that call c armed; c is still inside its endless script.
C16_Witness ==
  \E c, d \in SbCalls :
    /\ c # d
    /\ Disarmed(c)
    /\ sb_thread[d] = "worker"
    /\ sb_pc[d] = "finally_restore"

\* ------------------------------------------------------ dispatch and the store
\* The collaborators that are functions of their arguments and of the table:
\* all but the sandbox, whose script runs with the pandas handle and against a
\* wall-clock deadline.
Deterministic(name) == name # "execute_pandas_code"

\* C17 (as claimed): two dispatches of the same tool with identical arguments
\* over the same store return equal envelopes, and a dispatch leaves the stored
\* datasets as they were.  (Within one invocation of LoopSpec nothing else
\* writes to the store between two dispatches.)
C17_DispatchRepeatable ==
  \A p \in Procs :
    \A i, j \in DOMAIN dispatched[p] :
      ( /\ dispatched[p][i].name = dispatched[p][j].name
        /\ dispatched[p][i].args = dispatched[p][j].args
        /\ dispatched[p][i].active = dispatched[p][j].active
        /\ Deterministic(dispatched[p][i].name) =>
             dispatched[p][i].collab = dispatched[p][j].collab )
      => /\ dispatched[p][i].out = dispatched[p][j].out
         /\ dispatched[p][i].active \in DOMAIN data_frames =>
              data_frames[dispatched[p][i].active] > 0

\* The step in which invocation p dispatches a tool call that runs a script.
RunsScript(p) ==
  /\ Len(dispatched'[p]) = Len(dispatched[p]) + 1
  /\ dispatched'[p][Len(dispatched'[p])].out.invoked = "execute_code"

\* C18: a dispatch that runs a script leaves the stored datasets and the active
\* dataset reference exactly as they were, whatever the script does to its `df`
\* binding and however the call ends (output, error output, or an escaping
\* timeout).
C18_ScriptLeavesStoreAlone ==
  [][\A p \in Procs :
       RunsScript(p) => UNCHANGED <<data_frames, data_meta, active_dataset_id>>]_vars

\* Scripts that changed `df` in place: one whose call returned an output and
\* one whose call ended in a fault; the stored table still has its rows.
C18_Witness ==
  \E p \in Procs :
    \E i, j \in DOMAIN dispatched[p] :
      /\ dispatched[p][i].out.invoked = "execute_code"
      /\ dispatched[p][i].effect = "mutate"
      /\ ~dispatched[p][i].out.raised
      /\ dispatched[p][j].out.invoked = "execute_code"
      /\ dispatched[p][j].effect = "mutate"
      /\ (dispatched[p][j].out.raised \/ CarriesError(dispatched[p][j].out.env))
      /\ data_frames[dispatched[p][i].active] = ActiveRows(active_dataset_id, data_frames)
      /\ data_frames[dispatched[p][i].active] > 0

\* ------------------------------------------------ what is returned and recorded
\* C19: at DONE the response envelope that chat() returns and the assistant
\* turn it appended carry the same text, chart, table rows and column names,
\* on every path: no tools, tools, or a fault.
C19_ReturnedMatchesRecorded ==
  \A p \in Procs :
    pc[p] = "done" =>
      LET turn == appended[p][Len(appended[p])] IN
        /\ Len(appended[p]) = 2
        /\ turn.role = "assistant"
        /\ turn.content = response_data[p].text
        /\ turn.plot_json = response_data[p].plot_json
        /\ turn.table_data = response_data[p].table_data
        /\ turn.table_columns = response_data[p].table_columns
        /\ ~interleaved[p] => conversation_history[Len(conversation_history)] = turn

\* A fault after a chart and a table were folded in: the returned value and
\* the turn both carry the error text, the chart and the table.
C19_Witness ==
  \E p \in Procs :
    /\ pc[p] = "done"
    /\ faulted[p]
    /\ response_data[p].text = ErrorText
    /\ response_data[p].plot_json # None
    /\ response_data[p].table_data # NoRows
    /\ appended[p][2].plot_json = response_data[p].plot_json

\* ------------------------------------------------------ error envelopes go on
\* The invocation left the for loop by a fault after call i: a later dispatch
\* raised, a later envelope could not be serialized, or the next call's
\* arguments could not be parsed.
LaterFault(p, i) ==
  \/ \E j \in DOMAIN dispatched[p] :
       /\ j > i
       /\ (dispatched[p][j].out.raised \/ ~Serializable(dispatched[p][j].out.env))
  \/ /\ next_call[p] <= Len(tool_calls[p])
     /\ tool_calls[p][next_call[p]].arguments = BadJson

RECURSIVE FoldedUpTo(_, _)
FoldedUpTo(log, n) ==
  IF n = 0 THEN EmptyResponse
  ELSE IF log[n].out.raised THEN FoldedUpTo(log, n - 1)
  ELSE Fold(FoldedUpTo(log, n - 1), log[n].out.env)

\* C21 (as claimed): after a script that bound `result`, a table gives a table
\* envelope (rows, columns, row_count) whose rows and columns become the
\* response's table; a mapping is the output's result unchanged; any other
\* value is the output's result as it is and leaves the response's table as it
\* was before the call.
C21_ResultBindingShapes ==
  \A p \in Procs :
    dispatched[p] # <<>> =>
      LET n == Len(dispatched[p])
          d == dispatched[p][n]
          before == FoldedUpTo(dispatched[p], n - 1)
      IN
        (d.out.invoked = "execute_code" /\ ~d.out.raised /\ "res" \in DOMAIN d.collab) =>
          LET res == d.collab.res
              result == d.out.env.result
          IN
            CASE res.type = "DataFrame" ->
                   /\ {"data", "columns", "row_count"} \subseteq DOMAIN result
                   /\ result.row_count = res.rows
                   /\ response_data[p].table_data = result.data
                   /\ response_data[p].table_columns = result.columns
              [] res.type = "dict" -> result = res
              [] OTHER ->
                   /\ result = res
                   /\ response_data[p].table_data = before.table_data
                   /\ response_data[p].table_columns = before.table_columns

\* ------------------------------------------------------ the active dataset
\* The active reference is none, or names a dataset stored with its table and
\* its metadata.
ActiveIsStored ==
  \/ active_dataset_id = None
  \/ /\ active_dataset_id \in DOMAIN data_frames
     /\ active_dataset_id \in DOMAIN data_meta

\* The step stores a dataset that was not stored before.
StoresDataset == DOMAIN data_frames' \ DOMAIN data_frames # {}

\* C22: in every state reached by uploads, clear_all, POST /clear and chat
\* invocations the active reference is none or a stored dataset; and a step
\* that stores a new dataset makes it the active one and keeps every dataset
\* stored before, with its table and metadata.
C22_ActiveDatasetStored ==
  /\ []ActiveIsStored
  /\ [][StoresDataset =>
          /\ DOMAIN data_frames' \ DOMAIN data_frames = {active_dataset_id'}
          /\ \A f \in DOMAIN data_frames :
               /\ f \in DOMAIN data_frames' /\ data_frames'[f] = data_frames[f]
               /\ f \in DOMAIN data_meta' /\ data_meta'[f] = data_meta[f]]_vars

\* Two datasets stored, the later one active, after a conversation took place.
C22_Witness ==
  /\ DOMAIN data_frames = {FileId(1), FileId(2)}
  /\ DOMAIN data_meta = {FileId(1), FileId(2)}
  /\ active_dataset_id = FileId(2)
  /\ conversation_history # <<>>

\* ------------------------------------------------------------- POST /clear
\* C23: POST /clear empties the conversation history and leaves the stored
\* tables, their metadata, the document metadata and the active reference as
\* they were; a dataset tool dispatched on the store after it gets the answer
\* it would have got before it, not the no-dataset error.
C23_ClearHistoryKeepsDatasets ==
  [][ClearHistory =>
       /\ conversation_history' = <<>>
       /\ data_frames' = data_frames
       /\ data_meta' = data_meta
       /\ document_meta' = document_meta
       /\ active_dataset_id' = active_dataset_id
       /\ ExecDescribe(NoArgs, active_dataset_id', data_frames', [fault |-> FALSE])
            = ExecDescribe(NoArgs, active_dataset_id, data_frames, [fault |-> FALSE])]_vars

\* The history was cleared after this invocation recorded its user turn; the
\* dataset is still active and the invocation's tool call ran against it.
C23_Witness ==
  \E p \in Procs :
    /\ interleaved[p]
    /\ Len(appended[p]) = 1
    /\ conversation_history = <<>>
    /\ active_dataset_id # None
    /\ active_dataset_id \in DOMAIN data_frames
    /\ dispatched[p] # <<>>
    /\ dispatched[p][1].active = active_dataset_id
    /\ dispatched[p][1].out.invoked = "generate_plot"

\* ------------------------------------------------------ faults after a fold
\* C24: once the except clause has run, no further tool call is dispatched and
\* no further model call is made; the response's text is the error message and
\* its chart and table are what the tool calls that returned before the fault
\* had folded into it.
C24_FaultKeepsFolded ==
  \A p \in Procs :
    faulted[p] =>
      LET folded == FoldedUpTo(dispatched[p], Len(dispatched[p])) IN
        /\ pc[p] \in {"append_assistant", "done"}
        /\ response_data[p].text = ErrorText
        /\ response_data[p].plot_json = folded.plot_json
        /\ response_data[p].table_data = folded.table_data
        /\ response_data[p].table_columns = folded.table_columns
        /\ pc[p] = "done" =>
             /\ appended[p][2].plot_json = folded.plot_json
             /\ appended[p][2].table_data = folded.table_data

\* A first call that folded a chart, then a second call that raised: the
\* remaining work is skipped and the chart is kept.
C24_Witness ==
  \E p \in Procs :
    /\ faulted[p]
    /\ pc[p] = "done"
    /\ Len(tool_calls[p]) = 2
    /\ Len(dispatched[p]) = 2
    /\ ~dispatched[p][1].out.raised
    /\ dispatched[p][1].out.invoked = "generate_plot"
    /\ dispatched[p][2].out.raised
    /\ provider_calls[p] = <<"tools">>
    /\ response_data[p].plot_json = dispatched[p][1].out.env.plot_json
    /\ response_data[p].plot_json # None

\* ------------------------------------------------------ rows and column names
\* The response's table is the table of logged call d: the table nested in its
\* result when there is one, its outer table otherwise, rows and column names
\* both taken from that level.
TableFrom(rd, d) ==
  /\ ~d.out.raised
  /\ LET env == d.out.env
         nested == "result" \in DOMAIN env /\ "data" \in DOMAIN env.result
     IN
       IF nested
         THEN /\ "columns" \in DOMAIN env.result
              /\ rd.table_data = env.result.data
              /\ rd.table_columns = env.result.columns
         ELSE /\ {"data", "columns"} \subseteq DOMAIN env
              /\ rd.table_data = env.data
              /\ rd.table_columns = env.columns

\* C25 (as claimed): in every response envelope and every assistant turn, rows
\* and column names are both empty or both set, and when set both come from one
\* tool call and one level of its envelope (the nested table when the call has
\* one).
C25_RowsAndColumnsPaired ==
  \A p \in Procs :
    /\ response_data[p].table_data = NoRows <=> response_data[p].table_columns = None
    /\ response_data[p].table_columns # None =>
         \E i \in DOMAIN dispatched[p] : TableFrom(response_data[p], dispatched[p][i])
    /\ \A t \in DOMAIN appended[p] :
         appended[p][t].role = "assistant" =>
           (appended[p][t].table_data = NoRows <=> appended[p][t].table_columns = None)

\* --------------------------------------------------- concurrent invocations
\* Two request handlers run chat() at the same time, in worker threads, over
\* the one unlocked history, while clear operations arrive.
ConcNext ==
  \/ \E p \in Procs : ChatStep(p, HistoryResponses, ChatTableSizes, {[raised |-> TRUE]})
  \/ ClearStep

ConcSpec == Init /\ [][ConcNext]_vars

\* The number of turns of `role` among the first n turns of the history.
TurnsOf(role, n) ==
  Cardinality({i \in 1..n : conversation_history[i].role = role})

\* C26 (as claimed): every assistant turn in the history is preceded by the
\* user turn of its invocation, so up to any assistant turn the history holds
\* at least as many user turns as assistant turns; a clear between the two
\* appends of an invocation included.
C26_AssistantAfterUser ==
  \A i \in DOMAIN conversation_history :
    conversation_history[i].role = "assistant" =>
      TurnsOf("user", i) >= TurnsOf("assistant", i)

\* ------------------------------------------------- the alarm after the call
\* C27: when a call that armed the deadline (a main-thread call) returns, with
\* a result, a fault or a timeout in its output, no alarm is pending and the
\* SIGALRM handler is the one that was installed when the call began; and no
\* step of a call that could not arm the deadline (a worker-thread call)
\* changes the handler.
C27_AlarmStateRestored ==
  [][\A c \in SbCalls :
       /\ (sb_thread[c] = "main" /\ sb_pc[c] # "returned" /\ sb_pc'[c] = "returned") =>
            /\ ~alarm_pending'
            /\ alarm_handler' = sb_old_handler[c]
       /\ (sb_thread[c] = "worker" /\ sb_pc[c] # "idle" /\ sb_pc'[c] # sb_pc[c]) =>
            /\ alarm_handler' = alarm_handler
            /\ sb_old_handler'[c] = None]_vars

\* A main-thread call returned with the timeout in its output and the default
\* handler back in place, next to a worker-thread call that has returned too.
C27_Witness ==
  \E c, d \in SbCalls :
    /\ sb_thread[c] = "main"
    /\ sb_pc[c] = "returned"
    /\ sb_output[c].error = TimeoutText
    /\ sb_old_handler[c] = "SIG_DFL"
    /\ alarm_handler = "SIG_DFL"
    /\ ~alarm_pending
    /\ sb_thread[d] = "worker"
    /\ sb_pc[d] = "returned"
    /\ sb_script[d].kind = "raise"

\* ------------------------------------------------------------- chunk_text alone
\* chunk_text over every text of up to MaxText characters, every chunk_size up
\* to MaxChunk and every overlap from 0 up to chunk_size - 1.
ChunkNext ==
  \/ \E n \in 0..MaxText : \E text \in [1..n -> Chars] :
       \E chunk_size \in 1..MaxChunk : \E overlap \in 0..(chunk_size - 1) :
         ChunkCall(text, chunk_size, overlap)
  \/ ChunkRun

ChunkSpec == Init /\ [][ChunkNext]_vars

\* The call keeps running until it returns.
ChunkFairSpec == ChunkSpec /\ WF_vars(ChunkRun)

\* Character position i (from 1) of the text lies in the slice of some iteration.
Covered(i) ==
  \E w \in DOMAIN ct_windows : ct_windows[w].start < i /\ i <= ct_windows[w].end

====
